---- MODULE Spec2Model ----
(***************************************************************************)
(* State-machine model of src/data_quality_analyzer.py: one call of        *)
(* analyze_for_exclusion / identify_columns_to_exclude, from the filter    *)
(* echo and query construction, through the connection fallback and the    *)
(* query, to the per-column analysis loop and the returned dictionary.     *)
(*                                                                         *)
(* A column of the DataFrame is kept as a bag of cells (value -> count):   *)
(* every metric the code computes (isnull().sum(), nunique(), (== 0).sum(),*)
(* (strip == '').sum()) is a count over the cells.  Percentages are        *)
(* compared exactly (100 * num >= threshold * den); for the thresholds     *)
(* used here (0, 25, 50, 70, 75, 80, 90, 100) and these row counts, IEEE   *)
(* double evaluation of (num / den) * 100 >= threshold agrees.  The formatted *)
(* reason texts are carried as their reason codes, and the rounded         *)
(* percentage fields of all_column_analysis are not carried.               *)
(***************************************************************************)
EXTENDS Integers, Sequences, FiniteSets, TLC

VARIABLES pc, env, preset, filters, null_threshold, zero_threshold, query, attempts, driver, conn, method,
          connOpen, executed, df, col, columns_to_exclude, exclusion_reasons,
          all_column_analysis, swallowed, failure, raised, result

vars == <<pc, env, preset, filters, null_threshold, zero_threshold, query, attempts, driver, conn, method,
          connOpen, executed, df, col, columns_to_exclude, exclusion_reasons,
          all_column_analysis, swallowed, failure, raised, result>>

(* ------------------------------ bounds --------------------------------- *)

\* Largest number of columns of an analysed table.
MaxCols == 2
\* Number of rows of the larger tables (101 non-null rows with 2 distinct
\* values is the smallest column whose distinct percentage is below 2).
MaxRows == 101
\* Largest number of filters passed by the caller.
MaxFilters == 2

(* ------------------------- program constants --------------------------- *)

StrictNullThreshold == 70
StrictZeroThreshold == 90
RelaxedNullThreshold == 90
RelaxedZeroThreshold == 80

\* The null marker of a column (None / NaN / NaT).
NULL == "NULL"

\* `safe_operators` of build_filtered_query.
safe_operators == {"=", "!=", ">", ">=", "<", "<=", "LIKE", "IN", "NOT IN"}

\* The pyodbc `drivers` list, in order.
drivers == << "ODBC Driver 17 for SQL Server", "ODBC Driver 13 for SQL Server",
              "FreeTDS", "SQL Server" >>

\* Python's None, as a returned value.
NoneValue == [kind |-> "None"]

\* pd.DataFrame(): no rows, no columns.
EmptyDataFrame == [nrows |-> 0, columns |-> << >>]

(* --------------------------- filters ----------------------------------- *)

\* Marks a filter_config that has no 'operator' key.
NoOperator == "<absent>"

\* Operators a caller may pass (strings, case kept as written).
Operators == {"=", "like", "IN", "DROP", NoOperator}

\* Filter values: a scalar, or a list for IN / NOT IN.
FilterValues == { [isList |-> FALSE, items |-> <<"v">>],
                  [isList |-> TRUE, items |-> <<"v", "w">>] }

\* Filter column names, in dict insertion order.
FilterColumns == <<"f1", "f2", "f3", "f4">>

FilterConfigs == [operator : Operators, value : FilterValues]

\* The filters dict as the sequence of its items (None / {} is << >>).
FilterSets(n) == UNION { [1..k -> FilterConfigs] : k \in 0..n }

\* str.upper() on the operator strings of the model.
Upper(s) ==
  CASE s = "like" -> "LIKE"
    [] s = "in" -> "IN"
    [] s = "not in" -> "NOT IN"
    [] OTHER -> s

\* filter_config.get('operator', '=')
GetOperator(fc) == IF fc.operator = NoOperator THEN "=" ELSE fc.operator

\* One WHERE condition and its parameters (lines 126-136): the column, the
\* operator as written, one "?" per parameter, parenthesised for IN / NOT IN.
Clause(name, fc) ==
  LET operator == GetOperator(fc)
  IN IF Upper(operator) \in {"IN", "NOT IN"}
       THEN [column |-> name, operator |-> operator, paren |-> TRUE,
             placeholders |-> [i \in 1..Len(fc.value.items) |-> "?"],
             params |-> [i \in 1..Len(fc.value.items) |->
                           [isList |-> FALSE, items |-> <<fc.value.items[i]>>]]]
       ELSE [column |-> name, operator |-> operator, paren |-> FALSE,
             placeholders |-> <<"?">>,
             params |-> <<fc.value>>]

\* Variant of FirstRejected: the allow-list test applied to the first filter
\* only (the test placed outside the loop).
FirstRejected_FirstFilterOnly(fs) ==
  IF Len(fs) > 0 /\ Upper(GetOperator(fs[1])) \notin safe_operators THEN 1 ELSE 0

\* First filter (in dict order) whose operator fails the allow-list test of
\* line 124, or 0 when every operator passes.
FirstRejected(fs) ==
  LET bad == { i \in 1..Len(fs) : Upper(GetOperator(fs[i])) \notin safe_operators }
  IN IF bad = {} THEN 0 ELSE CHOOSE i \in bad : \A j \in bad : i <= j

RECURSIVE ConcatParams(_, _)
ConcatParams(fs, k) ==
  IF k = 0 THEN << >>
  ELSE ConcatParams(fs, k - 1) \o Clause(FilterColumns[k], fs[k]).params

\* build_filtered_query(table_name, schema, filters): the (query, params)
\* pair, or the ValueError raised at the first rejected operator.
build_filtered_query(fs) ==
  IF FirstRejected(fs) # 0
    THEN [error |-> "ValueError", at |-> FirstRejected(fs)]
    ELSE [error |-> "none",
          where |-> [k \in 1..Len(fs) |->
                      [c \in {"column", "operator", "paren", "placeholders"} |->
                          Clause(FilterColumns[k], fs[k])[c]]],
          params |-> ConcatParams(fs, Len(fs))]

(* --------------------------- tables ------------------------------------ *)

Kinds == {"numeric", "text", "other"}

\* Cell values of a column of each dtype kind: int64/float64, object (text),
\* datetime64.
ValuesOf(kind) ==
  CASE kind = "numeric" -> {NULL, "0", "1"}
    [] kind = "text" -> {NULL, " ", "x"}
    [] OTHER -> {NULL, "t1"}

\* Column names of the table, in source order.
ColumnNames == <<"a", "b", "c", "d">>

\* The number of cells of a column whose value is in vs.
SumCells(cells, vs) ==
  LET RECURSIVE Sum(_)
      Sum(rest) ==
        IF rest = {} THEN 0
        ELSE LET v == CHOOSE x \in rest : TRUE
             IN cells[v] + Sum(rest \ {v})
  IN Sum(vs \cap DOMAIN cells)

\* The smallest count that is at least 80 per cent of m.
Hi(m) == (4 * m + 4) \div 5

\* Null counts enumerated for a column of n rows: none, about 80 per cent,
\* all but one, all.
NullCounts(n) == {0, Hi(n), n - 1, n} \cap (0..n)

\* Shares of the m non-null cells enumerated for the first value of a kind
\* (0 for numeric, " " for text): none, about 20 per cent, about 80 per cent,
\* all.
Shares(m) == {0, m - Hi(m), Hi(m), m} \cap (0..m)

\* The columns of kind `kind` with n rows.
ColumnsOf(kind, n) ==
  IF kind = "other"
    THEN { [kind |-> kind, cells |-> (NULL :> k) @@ ("t1" :> (n - k))] :
             k \in NullCounts(n) }
    ELSE LET v1 == IF kind = "numeric" THEN "0" ELSE " "
             v2 == IF kind = "numeric" THEN "1" ELSE "x"
         IN UNION { { [kind |-> kind,
                       cells |-> (NULL :> k) @@ (v1 :> a) @@ (v2 :> (n - k - a))] :
                        a \in Shares(n - k) } : k \in NullCounts(n) }

ColumnsFor(n) == UNION { ColumnsOf(k, n) : k \in Kinds }

\* Row counts of the tables the data source may return.
RowCounts == {0, 1, MaxRows}

\* The tables a successful query may return: 1..MaxCols columns, all of the
\* same number of rows.
Tables ==
  UNION { { [nrows |-> n, columns |-> cs] : cs \in [1..k -> ColumnsFor(n)] } :
            n \in RowCounts, k \in 1..MaxCols }

\* A small set of tables for the runs that explore the filters: one numeric
\* column, no row or one row.
FewTables ==
  UNION { { [nrows |-> n, columns |-> <<c>>] : c \in ColumnsOf("numeric", n) } :
            n \in {0, 1} }

\* df.empty
IsEmpty(d) == d.nrows = 0 \/ Len(d.columns) = 0

(* ----------------------- per-column metrics ---------------------------- *)

NonNull(c) == ValuesOf(c.kind) \ {NULL}

\* len(total_data)
TotalLen(c) == SumCells(c.cells, ValuesOf(c.kind))

\* total_data.isnull().sum()
null_count(c) == c.cells[NULL]

\* len(col_data), col_data = df[col].dropna()
DataLen(c) == SumCells(c.cells, NonNull(c))

\* col_data.nunique() if len(col_data) > 0 else 0
unique_count(c) ==
  IF DataLen(c) > 0 THEN Cardinality({ v \in NonNull(c) : c.cells[v] > 0 }) ELSE 0

\* (col_data == 0).sum()
zero_count(c) == c.cells["0"]

\* str.strip() on the cell values of the model.
Strip(v) == IF v = " " THEN "" ELSE v

\* (col_data.astype(str).str.strip() == '').sum()
empty_count(c) == SumCells(c.cells, { v \in NonNull(c) : Strip(v) = "" })

\* (num / den) * 100 >= threshold, for den > 0.
PercentAtLeast(num, den, threshold) == 100 * num >= threshold * den

\* pd.api.types.is_numeric_dtype(col_data)
is_numeric_dtype(c) == c.kind = "numeric"

\* pd.api.types.is_string_dtype(col_data) or is_object_dtype(col_data)
is_text_dtype(c) == c.kind = "text"

\* Variant of ManyNulls: the comparison reversed (null_percent <= threshold).
ManyNulls_AtMost(c, nt) == 100 * null_count(c) <= nt * TotalLen(c)

\* Criterion 1 (line 302): null_percent >= null_threshold.
ManyNulls(c, nt) == PercentAtLeast(null_count(c), TotalLen(c), nt)

\* Criterion 2 (line 305): exactly one distinct non-null value.
SingleValue(c) == DataLen(c) > 0 /\ unique_count(c) = 1

\* Criterion 3 (lines 309-312): numeric column, zero_percent >= zero_threshold.
ManyZeros(c, zt) ==
  /\ DataLen(c) > 0
  /\ is_numeric_dtype(c)
  /\ PercentAtLeast(zero_count(c), DataLen(c), zt)

\* Criterion 4 (lines 316-325): text column, empty_percent >= zero_threshold;
\* strFails: the astype(str).str.strip() conversion raised, and the except
\* clause left empty_percent at 0 and appended nothing.
EmptyStrings(c, zt, strFails) ==
  /\ DataLen(c) > 0
  /\ is_text_dtype(c)
  /\ ~strFails
  /\ PercentAtLeast(empty_count(c), DataLen(c), zt)

\* Variant of ColumnReasons: the criteria chained with elif, so that only the
\* first one that holds is recorded.
ColumnReasons_FirstOnly(c, nt, zt, strFails) ==
  IF ManyNulls(c, nt) THEN <<"MUITOS NULOS">>
  ELSE IF SingleValue(c) THEN <<"VALOR UNICO">>
  ELSE IF ManyZeros(c, zt) THEN <<"MUITOS ZEROS">>
  ELSE IF EmptyStrings(c, zt, strFails) THEN <<"STRINGS VAZIAS">>
  ELSE << >>

\* The `reasons` list of one column after the four criteria (lines 295-325).
ColumnReasons(c, nt, zt, strFails) ==
  (IF ManyNulls(c, nt) THEN <<"MUITOS NULOS">> ELSE << >>) \o
  (IF SingleValue(c) THEN <<"VALOR UNICO">> ELSE << >>) \o
  (IF ManyZeros(c, zt) THEN <<"MUITOS ZEROS">> ELSE << >>) \o
  (IF EmptyStrings(c, zt, strFails) THEN <<"STRINGS VAZIAS">> ELSE << >>)

\* Variant of HasReasons: a single reason is not enough to exclude.
HasReasons_SeveralReasons(reasons) == Len(reasons) > 1

\* `if reasons:` (line 327).
HasReasons(reasons) == reasons # << >>

\* Variant of ColumnsToKeep: the `if col not in columns_to_exclude` dropped.
ColumnsToKeep_AllColumns(names, excluded) == names

\* [col for col in df.columns if col not in columns_to_exclude] (line 409)
ColumnsToKeep(names, excluded) ==
  SelectSeq(names, LAMBDA n : \A i \in 1..Len(excluded) : excluded[i] # n)

\* df.columns
ColumnsOfFrame(d) == [i \in 1..Len(d.columns) |-> ColumnNames[i]]

(* ----------------------------- state ----------------------------------- *)

\* Filter sets of the runs that explore the tables.
FewFilterSets ==
  { << >> } \cup
  { << [operator |-> op, value |-> [isList |-> FALSE, items |-> <<"v">>]] >> :
      op \in {"DROP", NoOperator} }

\* The environment of a run: whether pymssql imports and connects, whether
\* pyodbc is installed, and which entries of `drivers` connect.
Envs == [pymssql : BOOLEAN, pyodbc : BOOLEAN, odbc : SUBSET (1..Len(drivers))]

\* Environments of the runs that explore the tables or the filters: pymssql
\* fails and either the second ODBC driver connects or none does.
FewEnvs == { [pymssql |-> FALSE, pyodbc |-> TRUE, odbc |-> {2}],
             [pymssql |-> FALSE, pyodbc |-> TRUE, odbc |-> {}] }

\* Thresholds of a direct call of identify_columns_to_exclude.
DirectThresholds == { <<50, 50>> }

InitWith(filterSets, envs) ==
  /\ pc = "idle"
  /\ env \in envs
  /\ preset = "none"
  /\ filters \in filterSets
  /\ null_threshold = RelaxedNullThreshold
  /\ zero_threshold = RelaxedZeroThreshold
  /\ query = NoneValue
  /\ attempts = << >>
  /\ driver = 0
  /\ conn = "None"
  /\ method = "None"
  /\ connOpen = FALSE
  /\ executed = 0
  /\ df = EmptyDataFrame
  /\ col = 0
  /\ columns_to_exclude = << >>
  /\ exclusion_reasons = << >>
  /\ all_column_analysis = << >>
  /\ swallowed = {}
  /\ failure = "none"
  /\ raised = "none"
  /\ result = NoneValue

Init == InitWith(FewFilterSets, FewEnvs)

InitFilters == InitWith(FilterSets(MaxFilters), FewEnvs)

InitConnect == InitWith(FewFilterSets, Envs)

(* ---------------------------- entry points ----------------------------- *)

\* analyze_for_exclusion(table_name, schema, strict, filters): the preset.
Preset(s) ==
  IF s THEN <<StrictNullThreshold, StrictZeroThreshold>>
  ELSE <<RelaxedNullThreshold, RelaxedZeroThreshold>>

analyze_for_exclusion ==
  /\ pc = "idle"
  /\ \E s \in BOOLEAN :
       /\ preset' = IF s THEN "strict" ELSE "relaxed"
       /\ null_threshold' = Preset(s)[1]
       /\ zero_threshold' = Preset(s)[2]
  /\ pc' = "identify"
  /\ UNCHANGED <<env, filters, query, attempts, driver, conn, method, connOpen, executed, df,
                 col, columns_to_exclude, exclusion_reasons,
                 all_column_analysis, swallowed, failure, raised, result>>

\* A direct call identify_columns_to_exclude(..., null_threshold, zero_threshold).
identify_direct ==
  /\ pc = "idle"
  /\ \E t \in DirectThresholds :
       /\ null_threshold' = t[1]
       /\ zero_threshold' = t[2]
  /\ pc' = "identify"
  /\ UNCHANGED <<env, preset, filters, query, attempts, driver, conn, method, connOpen, executed, df,
                 col, columns_to_exclude, exclusion_reasons,
                 all_column_analysis, swallowed, failure, raised, result>>

\* identify_columns_to_exclude, lines 258-282 up to the call of
\* query_sqlserver_safe: the filter echo reads filter_config['operator'] of
\* every filter (KeyError, outside the try, when a filter has none); then
\* build_filtered_query, whose exception is caught and turned into None.
identify_build_query ==
  /\ pc = "identify"
  /\ IF \E i \in 1..Len(filters) : filters[i].operator = NoOperator
       THEN /\ raised' = "KeyError"
            /\ pc' = "done"
            /\ UNCHANGED <<query, result>>
       ELSE IF build_filtered_query(filters).error # "none"
         THEN /\ result' = NoneValue
              /\ pc' = "done"
              /\ UNCHANGED <<query, raised>>
         ELSE /\ query' = build_filtered_query(filters)
              /\ pc' = "pymssql"
              /\ UNCHANGED <<raised, result>>
  /\ UNCHANGED <<env, preset, filters, null_threshold, zero_threshold, attempts, driver, conn, method,
                 connOpen, executed, df, col, columns_to_exclude,
                 exclusion_reasons, all_column_analysis, swallowed, failure>>

(* ----------------------- get_connection_sqlserver ---------------------- *)

\* Variant of NextDriver: `break` instead of `continue` after a failed driver.
NextDriver_Break(i) == Len(drivers) + 1

\* The pyodbc loop after a failed driver: `continue` to the next one.
NextDriver(i) == i + 1

\* Lines 24-37: import pymssql and connect; any exception falls through.
connect_pymssql ==
  /\ pc = "pymssql"
  /\ LET ok == env.pymssql
     IN
       /\ attempts' = Append(attempts, [method |-> "pymssql", driver |-> "", ok |-> ok])
       /\ IF ok
            THEN /\ conn' = "connection"
                 /\ method' = "pymssql"
                 /\ connOpen' = TRUE
                 /\ pc' = "query"
            ELSE /\ pc' = "import_pyodbc"
                 /\ UNCHANGED <<conn, method, connOpen>>
  /\ UNCHANGED <<env, preset, filters, null_threshold, zero_threshold, query, driver, executed,
                 df, col, columns_to_exclude, exclusion_reasons,
                 all_column_analysis, swallowed, failure, raised, result>>

\* Lines 40-47 and 65-69: import pyodbc; ImportError returns (None, None).
import_pyodbc ==
  /\ pc = "import_pyodbc"
  /\ IF env.pyodbc
       THEN /\ driver' = 1
            /\ pc' = "pyodbc"
       ELSE /\ pc' = "query"
            /\ UNCHANGED driver
  /\ UNCHANGED <<env, preset, filters, null_threshold, zero_threshold, query, attempts, conn, method,
                 connOpen, executed, df, col, columns_to_exclude,
                 exclusion_reasons, all_column_analysis, swallowed, failure,
                 raised, result>>

\* Lines 48-64: one pass of the driver loop.
connect_pyodbc ==
  /\ pc = "pyodbc"
  /\ driver <= Len(drivers)
  /\ LET ok == driver \in env.odbc
     IN
       /\ attempts' = Append(attempts,
                             [method |-> "pyodbc", driver |-> drivers[driver], ok |-> ok])
       /\ IF ok
            THEN /\ conn' = "connection"
                 /\ method' = "pyodbc"
                 /\ connOpen' = TRUE
                 /\ pc' = "query"
                 /\ UNCHANGED driver
            ELSE /\ driver' = NextDriver(driver)
                 /\ pc' = IF NextDriver(driver) > Len(drivers) THEN "query" ELSE "pyodbc"
                 /\ UNCHANGED <<conn, method, connOpen>>
  /\ UNCHANGED <<env, preset, filters, null_threshold, zero_threshold, query, executed, df, col,
                 columns_to_exclude, exclusion_reasons, all_column_analysis,
                 swallowed, failure, raised, result>>

(* -------------------------- query_sqlserver_safe ----------------------- *)

\* The return of query_sqlserver_safe and the df.empty test of line 283.
Loaded(d) ==
  /\ df' = d
  /\ IF IsEmpty(d)
       THEN /\ result' = NoneValue
            /\ pc' = "done"
            /\ UNCHANGED col
       ELSE /\ col' = 1
            /\ pc' = "loop"
            /\ UNCHANGED result

\* Lines 84-86: no connection; an empty DataFrame is returned.
query_no_connection ==
  /\ pc = "query"
  /\ conn = "None"
  /\ failure' = "connection"
  /\ Loaded(EmptyDataFrame)
  /\ UNCHANGED <<env, preset, filters, null_threshold, zero_threshold, query, attempts, driver,
                 conn, method, connOpen, executed, columns_to_exclude,
                 exclusion_reasons, all_column_analysis, swallowed, raised>>

\* Lines 87-93: pd.read_sql succeeds with one of `tables`; the connection is
\* closed.
ReadSql(tables) ==
  /\ pc = "query"
  /\ conn # "None"
  /\ \E t \in tables : Loaded(t)
  /\ executed' = executed + 1
  /\ connOpen' = FALSE
  /\ UNCHANGED <<env, preset, filters, null_threshold, zero_threshold, query, attempts, driver,
                 conn, method, columns_to_exclude, exclusion_reasons,
                 all_column_analysis, swallowed, failure, raised>>

\* Lines 94-97: pd.read_sql raises; the connection is closed and an empty
\* DataFrame is returned.
read_sql_fails ==
  /\ pc = "query"
  /\ conn # "None"
  /\ failure' = "query"
  /\ Loaded(EmptyDataFrame)
  /\ executed' = executed + 1
  /\ connOpen' = FALSE
  /\ UNCHANGED <<env, preset, filters, null_threshold, zero_threshold, query, attempts, driver,
                 conn, method, columns_to_exclude, exclusion_reasons,
                 all_column_analysis, swallowed, raised>>

(* --------------------------- the column loop --------------------------- *)

\* Lines 292-353: one pass of `for col in df.columns`.
analyze_column ==
  /\ pc = "loop"
  /\ col <= Len(df.columns)
  /\ LET c == df.columns[col]
         name == ColumnsOfFrame(df)[col]
         strTried == DataLen(c) > 0 /\ is_text_dtype(c)
     IN \E strFails \in (IF strTried THEN BOOLEAN ELSE {FALSE}) :
          LET reasons == ColumnReasons(c, null_threshold, zero_threshold, strFails)
          IN /\ IF HasReasons(reasons)
                  THEN /\ columns_to_exclude' = Append(columns_to_exclude, name)
                       /\ exclusion_reasons' = (name :> reasons) @@ exclusion_reasons
                  ELSE UNCHANGED <<columns_to_exclude, exclusion_reasons>>
             /\ all_column_analysis' =
                  Append(all_column_analysis,
                         [Coluna |-> name,
                          Acao |-> IF HasReasons(reasons) THEN "EXCLUIR" ELSE "MANTER",
                          Nulos_Count |-> null_count(c),
                          Valores_Unicos |-> unique_count(c),
                          Motivos |-> reasons,
                          Tipo_Dados |-> c.kind])
             /\ swallowed' = IF strFails THEN swallowed \cup {name} ELSE swallowed
  /\ col' = col + 1
  /\ UNCHANGED <<pc, env, preset, filters, null_threshold, zero_threshold, query, attempts,
                 driver, conn, method, connOpen, executed, df, failure, raised, result>>

\* Lines 354-417: the summary, the report and the returned dictionary.  With
\* the filters and tables of the model generate_markdown_report does not
\* raise (every filter has its 'operator' key, there is at least one column),
\* and a failed write of the file is caught, so markdown_content is bound.
identify_return ==
  /\ pc = "loop"
  /\ col > Len(df.columns)
  /\ result' = [kind |-> "dict",
                total_columns |-> Len(df.columns),
                columns_to_exclude |-> columns_to_exclude,
                columns_to_keep |-> ColumnsToKeep(ColumnsOfFrame(df), columns_to_exclude),
                exclusion_reasons |-> exclusion_reasons,
                all_analysis |-> all_column_analysis,
                query_executed |-> query.where,
                query_params |-> query.params]
  /\ pc' = "done"
  /\ UNCHANGED <<env, preset, filters, null_threshold, zero_threshold, query, attempts, driver,
                 conn, method, connOpen, executed, df, col, columns_to_exclude,
                 exclusion_reasons, all_column_analysis, swallowed, failure,
                 raised>>

read_sql == ReadSql(Tables)

read_sql_few == ReadSql(FewTables)

Common ==
  \/ analyze_for_exclusion
  \/ identify_direct
  \/ identify_build_query
  \/ connect_pymssql
  \/ import_pyodbc
  \/ connect_pyodbc
  \/ query_no_connection
  \/ read_sql_fails
  \/ analyze_column
  \/ identify_return

Next == Common \/ read_sql

NextFilters == Common \/ read_sql_few

\* Runs over the tables, with few filter sets.
Spec == Init /\ [][Next]_vars

\* Runs over the filter sets, with few tables.
SpecFilters == InitFilters /\ [][NextFilters]_vars

\* Runs over the environments, with few tables and few filter sets.
SpecConnect == InitConnect /\ [][NextFilters]_vars

(* ------------------------------ claims --------------------------------- *)

Range(q) == { q[i] : i \in 1..Len(q) }

\* The number of places of sequence q that hold x.
Occurrences(q, x) == Cardinality({ i \in 1..Len(q) : q[i] = x })

\* Whether the string conversion of an analysed column raised.
Swallowed(k) == all_column_analysis[k].Coluna \in swallowed

\* C1: in every returned result, columns_to_exclude and columns_to_keep
\* partition the table's columns: no name is in both, every column name of
\* the table is in exactly one of them (once), neither holds any other name,
\* and total_columns is the sum of their lengths.
C1_Partition ==
  result.kind = "dict" =>
    LET ex == result.columns_to_exclude
        kp == result.columns_to_keep
        names == ColumnsOfFrame(df)
    IN /\ Range(ex) \cap Range(kp) = {}
       /\ \A n \in Range(names) : Occurrences(ex, n) + Occurrences(kp, n) = 1
       /\ Range(ex) \cup Range(kp) = Range(names)
       /\ result.total_columns = Len(ex) + Len(kp)
       /\ result.total_columns = Len(names)

\* C1 witness: a returned result with an excluded and a kept column.
C1_Witness ==
  /\ result.kind = "dict"
  /\ result.columns_to_exclude # << >>
  /\ result.columns_to_keep # << >>

\* C2: for every analysed column the action is EXCLUIR iff its reason list
\* is non-empty and MANTER otherwise; the column is a key of
\* exclusion_reasons (with that list) and a member of columns_to_exclude
\* exactly when at least one of the four rules fired for it.
C2_ActionIffReasons ==
  \A k \in 1..Len(all_column_analysis) :
    LET a == all_column_analysis[k]
        c == df.columns[k]
        fired == \/ ManyNulls(c, null_threshold)
                 \/ SingleValue(c)
                 \/ ManyZeros(c, zero_threshold)
                 \/ EmptyStrings(c, zero_threshold, Swallowed(k))
    IN /\ a.Acao = (IF a.Motivos # << >> THEN "EXCLUIR" ELSE "MANTER")
       /\ (a.Motivos # << >>) <=> fired
       /\ (a.Coluna \in DOMAIN exclusion_reasons) <=> fired
       /\ (a.Coluna \in Range(columns_to_exclude)) <=> fired
       /\ fired => exclusion_reasons[a.Coluna] = a.Motivos

\* C2 witness: an analysis holding an excluded and a kept column.
C2_Witness ==
  /\ \E k \in 1..Len(all_column_analysis) : all_column_analysis[k].Acao = "EXCLUIR"
  /\ \E k \in 1..Len(all_column_analysis) : all_column_analysis[k].Acao = "MANTER"

\* The evaluation order of the reasons.
ReasonOrder == <<"MUITOS NULOS", "VALOR UNICO", "MUITOS ZEROS", "STRINGS VAZIAS">>

\* C3: for every analysed column the reason list is the sub-sequence of
\* MUITOS NULOS, VALOR UNICO, MUITOS ZEROS, STRINGS VAZIAS made of the rules
\* that hold for the column: in that order, each at most once, and all of
\* them together (no reason suppresses a later one).
C3_ReasonsAccumulateInOrder ==
  \A k \in 1..Len(all_column_analysis) :
    LET r == all_column_analysis[k].Motivos
        c == df.columns[k]
        held == { x \in Range(ReasonOrder) :
                    \/ x = "MUITOS NULOS" /\ ManyNulls(c, null_threshold)
                    \/ x = "VALOR UNICO" /\ SingleValue(c)
                    \/ x = "MUITOS ZEROS" /\ ManyZeros(c, zero_threshold)
                    \/ x = "STRINGS VAZIAS"
                         /\ EmptyStrings(c, zero_threshold, Swallowed(k)) }
    IN r = SelectSeq(ReasonOrder, LAMBDA x : x \in held)

\* C3 witness: an analysed column that carries three reasons.
C3_Witness ==
  \E k \in 1..Len(all_column_analysis) : Len(all_column_analysis[k].Motivos) = 3

\* Whether analysed column k has more than one distinct value and a distinct
\* percentage below 2.
LowVariance(k) ==
  /\ unique_count(df.columns[k]) > 1
  /\ 100 * unique_count(df.columns[k]) < 2 * DataLen(df.columns[k])

\* C4 (as claimed): the strict preset applies null threshold 70, zero/empty
\* threshold 90 and a low-variance threshold of 2, so every analysed column
\* with distinctCount > 1 and distinctPercent < 2 is excluded under strict;
\* the relaxed preset applies 90 and 80.
C4_StrictLowVariance ==
  /\ preset = "strict" =>
       /\ null_threshold = 70
       /\ zero_threshold = 90
       /\ \A k \in 1..Len(all_column_analysis) :
            LowVariance(k) => all_column_analysis[k].Acao = "EXCLUIR"
  /\ preset = "relaxed" =>
       /\ null_threshold = 90
       /\ zero_threshold = 80

\* C5 (as claimed): a table with columns and zero rows is analysed: a result
\* is returned in which every column has no nulls, no distinct value and the
\* action MANTER.
C5_ZeroRowsAnalysed ==
  (pc = "done" /\ failure = "none" /\ executed > 0
     /\ df.nrows = 0 /\ Len(df.columns) > 0) =>
    /\ result.kind = "dict"
    /\ Len(result.all_analysis) = Len(df.columns)
    /\ \A k \in 1..Len(result.all_analysis) :
         /\ result.all_analysis[k].Nulos_Count = 0
         /\ result.all_analysis[k].Valores_Unicos = 0
         /\ result.all_analysis[k].Acao = "MANTER"

\* C6 (as claimed): a failure of the data source (no method connects, or the
\* query raises) reaches the caller as an error: it is not turned into an
\* empty table, and the call does not end as it does for a query that
\* returned no rows (None returned, nothing raised).
C6_FailureSurfaces ==
  (pc = "done" /\ failure # "none") =>
    /\ df # EmptyDataFrame
    /\ ~(result = NoneValue /\ raised = "none")

\* The state every call is in before it attempts a connection: no attempt,
\* no connection, no query built or executed.
NothingAttempted ==
  /\ attempts = << >>
  /\ conn = "None"
  /\ executed = 0
  /\ query = NoneValue
  /\ pc \in {"idle", "identify", "done"}
  /\ pc = "done" => result = NoneValue

\* C7 (as claimed): when some filter's operator is not a member of
\* {=, !=, >, >=, <, <=, LIKE, IN, NOT IN}, build_filtered_query raises its
\* ValueError and the call attempts no connection and executes no query.
C7_RejectedBeforeQuery ==
  (\E i \in 1..Len(filters) : GetOperator(filters[i]) \notin safe_operators) =>
    /\ build_filtered_query(filters).error = "ValueError"
    /\ NothingAttempted

\* C7 (amended): when some filter's operator, upper-cased, is not a member of
\* {=, !=, >, >=, <, <=, LIKE, IN, NOT IN}, build_filtered_query raises its
\* ValueError and returns no query, and identify_columns_to_exclude attempts
\* no connection and executes no query, wherever the filter stands.
C7_RejectedBeforeQueryUpper ==
  (\E i \in 1..Len(filters) : Upper(GetOperator(filters[i])) \notin safe_operators) =>
    /\ build_filtered_query(filters).error = "ValueError"
    /\ NothingAttempted

\* C7 witness: a call that ended rejected on its second filter, the first
\* one being allowed.
C7_Witness ==
  /\ pc = "done"
  /\ raised = "none"
  /\ Len(filters) = 2
  /\ filters[1].operator = "like"
  /\ filters[2].operator = "DROP"

\* Null thresholds the monotonicity is compared at.
ThresholdGrid == { 25 * i : i \in 0..4 }

\* C8: for the metrics of the column analysed last and the zero threshold of
\* the run, at every lower null threshold t: a column that is EXCLUIR stays
\* excluded, and a column that is MANTER is excluded as soon as its null
\* percentage is at least t.
C8_NullThresholdMonotone ==
  LET k == Len(all_column_analysis)
  IN k > 0 =>
       \A t \in { x \in ThresholdGrid : x <= null_threshold } :
         LET c == df.columns[k]
             lower == ColumnReasons(c, t, zero_threshold, Swallowed(k))
         IN /\ all_column_analysis[k].Acao = "EXCLUIR" => HasReasons(lower)
            /\ (all_column_analysis[k].Acao = "MANTER"
                  /\ 100 * null_count(c) >= t * TotalLen(c)) => HasReasons(lower)

\* C8 witness: a column kept at the run's null threshold whose null
\* percentage reaches a lower threshold of the grid.
C8_Witness ==
  LET k == Len(all_column_analysis)
  IN /\ k > 0
     /\ all_column_analysis[k].Acao = "MANTER"
     /\ null_count(df.columns[k]) > 0
     /\ \E t \in ThresholdGrid :
          /\ 0 < t
          /\ t < null_threshold
          /\ 100 * null_count(df.columns[k]) >= t * TotalLen(df.columns[k])

\* C9 (as claimed): no result is returned when a step of profiling a column
\* failed: a run in which the string conversion raised ends with an error.
C9_AtomicFailure ==
  /\ result.kind = "dict" => swallowed = {}
  /\ (pc = "done" /\ swallowed # {}) => raised # "none"

\* The connection methods in the order they are tried.
MethodOrder ==
  <<[method |-> "pymssql", driver |-> ""]>> \o
  [i \in 1..Len(drivers) |-> [method |-> "pyodbc", driver |-> drivers[i]]]

\* Whether get_connection_sqlserver has returned.
ConnectionReturned ==
  pc \in {"query", "loop"} \/ (pc = "done" /\ attempts # << >>)

\* C10: the attempts follow the fixed order pymssql, then pyodbc with each
\* driver of the list, each method at most once; nothing is attempted after
\* a success; the connection returned is that of the first method that
\* succeeds, with its method name; (None, None) is returned iff every method
\* failed or pyodbc is not installed after pymssql failed; nothing is raised.
C10_ConnectionFallback ==
  /\ Len(attempts) <= Len(MethodOrder)
  /\ \A i \in 1..Len(attempts) :
       /\ attempts[i].method = MethodOrder[i].method
       /\ attempts[i].driver = MethodOrder[i].driver
       /\ i < Len(attempts) => ~attempts[i].ok
  /\ attempts # << >> => raised = "none"
  /\ ~ConnectionReturned => (conn = "None" /\ method = "None")
  /\ ConnectionReturned =>
       /\ (conn = "None") <=> (method = "None")
       /\ (conn = "None") <=> (\A i \in 1..Len(attempts) : ~attempts[i].ok)
       /\ conn # "None" => method = attempts[Len(attempts)].method
       /\ (conn = "None") <=>
             (~env.pymssql /\ (~env.pyodbc \/ env.odbc = {}))
       /\ conn = "None" =>
             \/ Len(attempts) = Len(MethodOrder)
             \/ (Len(attempts) = 1 /\ ~env.pyodbc)

\* C10 witness: the connection returned by the third ODBC driver after the
\* three methods before it failed.
C10_Witness ==
  /\ pc = "query"
  /\ conn # "None"
  /\ method = "pyodbc"
  /\ Len(attempts) = 4
  /\ attempts[4].driver = "FreeTDS"

\* C11 (as claimed): the strict preset excludes at least what the relaxed
\* preset excludes: in a run of analyze_for_exclusion with strict=True, every
\* analysed column that the relaxed thresholds give a reason for, on the
\* same cells and the same outcome of the string conversion, is EXCLUIR.
C11_StrictSupersetOfRelaxed ==
  preset = "strict" =>
    \A k \in 1..Len(all_column_analysis) :
      HasReasons(ColumnReasons(df.columns[k], Preset(FALSE)[1], Preset(FALSE)[2],
                               Swallowed(k)))
        => all_column_analysis[k].Acao = "EXCLUIR"

====
